---- MODULE Spec2Model ----
(***************************************************************************)
(* A model of scripts/generate_github_stats.py: the paginated fetch of a   *)
(* user's repositories, the aggregation of build_section, and the upsert   *)
(* of the generated section into README.md.                                *)
(*                                                                         *)
(* Text is a sequence of one-character strings.  Python's None is the      *)
(* string "None" where the value is otherwise a string and -1 where it is  *)
(* otherwise a natural number.  Timestamps are whole days.                 *)
(***************************************************************************)
EXTENDS Integers, Sequences, FiniteSets, TLC

VARIABLES
    \* README.md and upsert_readme_section
    readme,          \* README.md: [exists |-> BOOLEAN, text |-> Seq(char)]
    before,          \* README.md as it was before the latest upsert
    section,         \* the section built last / handed to the latest upsert
    prevSection,     \* the section handed to the upsert before that
    changed,         \* the latest upsert's return value
    runs,            \* number of upsert runs so far
    \* main
    pc,              \* where main is
    username,        \* GITHUB_USERNAME ("" when unset)
    token,           \* whether PRIVATE_STATS_TOKEN is set
    user,            \* the user payload
    page,            \* fetch_repos: the page to request next
    accum,           \* fetch_repos: the accumulator (its local repos)
    repos,           \* main: what fetch_repos returned
    requests,        \* every request issued, with the response it got
    contributed_30,  \* -1 is None
    contributed_90,  \* -1 is None
    generated_at,    \* the time main read before building (-1: not yet)
    clock,           \* the wall clock, in days
    stats,           \* the figures build_section computed last
    stderr,
    stdout,
    exit_code,       \* -1 while running; 1 is an uncaught exception
    \* history
    readme0,         \* README.md when the run started
    calls,           \* number of build_section calls so far
    firstSection     \* the section the first build_section call returned

upsertVars == <<readme, before, section, prevSection, changed, runs>>
mainVars == <<pc, username, token, user, page, accum, repos, requests,
              contributed_30, contributed_90, generated_at, clock, stats,
              stderr, stdout, exit_code, readme0, calls, firstSection>>
vars == <<upsertVars, mainVars>>

----------------------------------------------------------------------------
\* Bounds of the model

MaxPieces == 4      \* pieces an initial README is made of
MaxRuns == 3        \* upsert runs in one behaviour
MaxPages == 3       \* requests fetch_repos may issue: the server's last page is empty
MaxRepos == 2       \* repositories handed to build_section on its own
MaxTicks == 2       \* days the wall clock advances between build_section calls
MaxCalls == 2       \* build_section calls in one behaviour

----------------------------------------------------------------------------
\* Text helpers (Python str methods)

SECTION_START == <<"<", "S", ">">>
SECTION_END == <<"<", "E", ">">>
DefaultReadme == <<"#", "P", "\n", "\n">>

IsSpace(c) == c \in {" ", "\n"}

\* str.find: the lowest 0-based index where needle occurs, -1 when it does not
Find(hay, needle) ==
    LET hits == {i \in 0..(Len(hay) - Len(needle)) :
                    SubSeq(hay, i + 1, i + Len(needle)) = needle}
    IN IF hits = {} THEN -1 ELSE CHOOSE i \in hits : \A j \in hits : i <= j

\* s[:i] and s[i:] for 0 <= i <= len(s)
Upto(s, i) == SubSeq(s, 1, i)
From(s, i) == SubSeq(s, i + 1, Len(s))

\* str.rstrip(): drops every trailing whitespace character
RStrip(s) ==
    LET keep == {i \in 1..Len(s) : ~IsSpace(s[i])}
    IN IF keep = {} THEN <<>>
       ELSE SubSeq(s, 1, CHOOSE i \in keep : \A j \in keep : j <= i)

\* str.lstrip("\n"): drops every leading newline, and nothing else
LStripNewlines(s) ==
    LET keep == {i \in 1..Len(s) : s[i] # "\n"}
    IN IF keep = {} THEN <<>>
       ELSE SubSeq(s, CHOOSE i \in keep : \A j \in keep : i <= j, Len(s))

----------------------------------------------------------------------------
\* upsert_readme_section

\* the text read at the top: the file, or the seeded heading when there is none
ReadCurrent(file) == IF file.exists THEN file.text ELSE DefaultReadme

\* the branch with end_idx += len(SECTION_END) left out
ReplaceRegionFromEndSentinel(current, sec, start_idx, end_idx0) ==
    LET end_idx == end_idx0
        replacement == RStrip(Upto(current, start_idx)) \o <<"\n", "\n">> \o sec
        tail == LStripNewlines(From(current, end_idx))
    IN IF end_idx < Len(current) /\ tail # <<>>
       THEN replacement \o <<"\n">> \o tail
       ELSE replacement

\* the branch taken when start and end sentinel are found in order
ReplaceRegion(current, sec, start_idx, end_idx0) ==
    LET end_idx == end_idx0 + Len(SECTION_END)
        replacement == RStrip(Upto(current, start_idx)) \o <<"\n", "\n">> \o sec
        tail == LStripNewlines(From(current, end_idx))
    IN IF end_idx < Len(current) /\ tail # <<>>
       THEN replacement \o <<"\n">> \o tail
       ELSE replacement

\* the branch taken when a sentinel is missing or they are out of order
AppendSection(current, sec) ==
    LET stripped == RStrip(current)
    IN IF stripped # <<>> THEN stripped \o <<"\n", "\n">> \o sec ELSE sec

NewContent(current, sec) ==
    LET start_idx == Find(current, SECTION_START)
        end_idx == Find(current, SECTION_END)
    IN IF start_idx # -1 /\ end_idx # -1 /\ end_idx > start_idx
       THEN ReplaceRegion(current, sec, start_idx, end_idx)
       ELSE AppendSection(current, sec)

\* the file after the call, and the value returned
upsert_readme_section(file, sec) ==
    LET current == ReadCurrent(file)
        new_content == NewContent(current, sec)
    IN IF new_content = current
       THEN [file |-> file, ret |-> FALSE]
       ELSE [file |-> [exists |-> TRUE, text |-> new_content], ret |-> TRUE]

----------------------------------------------------------------------------
\* Repository records and responses

\* One element of a page.  dict is FALSE for an element that is no JSON
\* object; "None" stands for a field that is absent, null or of another type,
\* and id -1 for an absent id.
Item(full_name, id, owner, pushed_at) ==
    [dict |-> TRUE, full_name |-> full_name, id |-> id, owner |-> owner,
     private |-> FALSE, stars |-> 0, fork |-> FALSE, archived |-> FALSE,
     pushed_at |-> pushed_at, updated_at |-> "None", language |-> "None"]

NotADict == [Item("None", -1, "None", "None") EXCEPT !.dict = FALSE]

\* a response to one request
Response(kind, items, total) == [kind |-> kind, items |-> items, total |-> total]
Failures == {Response(k, <<>>, 0) : k \in {"http_error", "network_error"}}
BadShape == Response("bad_shape", <<>>, 0)

----------------------------------------------------------------------------
\* fetch_json / fetch_user / fetch_repos

\* fetch_json raises RuntimeError on HTTPError and on URLError
FetchJsonRaises(resp) == resp.kind \in {"http_error", "network_error"}

\* fetch_user raises when fetch_json does or the payload is no dict
FetchUserRaises(resp) == FetchJsonRaises(resp) \/ resp.kind = "bad_shape"

\* one turn of the while loop of fetch_repos, for the response it got:
\* "raise" (fetch_json raised, or the payload is no list), "break" (an empty
\* list) or "extend"
PageOutcomeSwallowingErrors(resp) ==
    IF FetchJsonRaises(resp) \/ resp.kind = "bad_shape" \/ resp.items = <<>>
    THEN "break" ELSE "extend"

PageOutcome(resp) ==
    IF FetchJsonRaises(resp) THEN "raise"
    ELSE IF resp.kind = "bad_shape" THEN "raise"
    ELSE IF resp.items = <<>> THEN "break"
    ELSE "extend"

\* repos.extend(repo for repo in data if isinstance(repo, dict))
ExtendKeepingAll(acc, data) == acc \o data

Extend(acc, data) == acc \o SelectSeq(data, LAMBDA repo : repo.dict)

\* str(repo.get("id", ""))
StrId(id) == IF id = -1 THEN "" ELSE ToString(id)

RepoKey(repo) ==
    IF repo.full_name # "None" /\ repo.full_name # ""
    THEN repo.full_name
    ELSE StrId(repo.id)

\* the loop with seen.add(key) left out
DedupeLoopForgetsSeen(rest, seen, deduped) ==
    SelectSeq(rest, LAMBDA repo : RepoKey(repo) \notin seen)

\* the loop over repos of the token branch
RECURSIVE DedupeLoop(_, _, _)
DedupeLoop(rest, seen, deduped) ==
    IF rest = <<>> THEN deduped
    ELSE LET repo == Head(rest)
             key == RepoKey(repo)
         IN IF key \in seen
            THEN DedupeLoop(Tail(rest), seen, deduped)
            ELSE DedupeLoop(Tail(rest), seen \cup {key}, Append(deduped, repo))

\* the loop over repos of the public branch
RECURSIVE FilterLoop(_, _, _)
FilterLoop(rest, name, filtered) ==
    IF rest = <<>> THEN filtered
    ELSE LET repo == Head(rest)
             owner_login == repo.owner
         IN FilterLoop(Tail(rest), name,
                       IF owner_login = name THEN Append(filtered, repo)
                       ELSE filtered)

PublicReturnFilteredOnly(all, name) == FilterLoop(all, name, <<>>)

PublicReturn(all, name) ==
    LET filtered == FilterLoop(all, name, <<>>)
    IN IF filtered # <<>> THEN filtered ELSE all

\* what fetch_repos returns once the loop has ended
ReposReturn(all, name, tok) ==
    IF tok THEN DedupeLoop(all, {}, <<>>) ELSE PublicReturn(all, name)

----------------------------------------------------------------------------
\* fetch_graphql / fetch_contributed_repo_count

\* fetch_graphql raises on HTTPError, URLError, a payload that is no dict, a
\* non-empty errors list and a missing data object; fetch_contributed_repo_count
\* raises on a viewer or a collection that is no dict
ContribRaises(resp) == resp.kind # "ok"

\* the number of distinct non-empty repository names with a positive total
ContribCount(resp) ==
    Cardinality({resp.items[i].name : i \in
        {j \in 1..Len(resp.items) :
            resp.items[j].total > 0 /\ resp.items[j].name # ""}})

----------------------------------------------------------------------------
\* n / pct / iso_to_datetime / latest_activity_at

\* f"{value:,}" for 0 <= value < 1,000,000, as a sequence of strings
Pad3(v) == IF v < 10 THEN <<"00", ToString(v)>>
           ELSE IF v < 100 THEN <<"0", ToString(v)>>
           ELSE <<ToString(v)>>
n(value) == IF value < 1000 THEN <<ToString(value)>>
            ELSE <<ToString(value \div 1000), ",">> \o Pad3(value % 1000)

\* f"{(part / total) * 100:.1f}%": tenths of a percent, ties to even
pct(part, total) ==
    IF total <= 0 THEN <<"0%">>
    ELSE LET q == (part * 1000) \div total
             r == (part * 1000) % total
             tenths == IF 2 * r > total \/ (2 * r = total /\ q % 2 = 1)
                       THEN q + 1 ELSE q
         IN <<ToString(tenths \div 10), ".", ToString(tenths % 10), "%">>

\* datetime.fromisoformat(value.replace("Z", "+00:00")) as the day of 2024 it
\* names; -1 is None (no string, an empty one, or one that does not parse)
iso_to_datetime(value) ==
    CASE value = "2024-01-09T12:00:00Z" -> 9
      [] value = "2024-01-10T12:00:00Z" -> 10
      [] value = "2024-03-09T12:00:00Z" -> 69
      [] value = "2024-03-10T12:00:00Z" -> 70
      [] value = "2024-04-01T12:00:00Z" -> 92
      [] OTHER -> -1

\* max of the timestamps that parse, None when neither does
latest_activity_at(repo) ==
    LET pushed_at == iso_to_datetime(repo.pushed_at)
        updated_at == iso_to_datetime(repo.updated_at)
    IN IF pushed_at = -1 THEN updated_at
       ELSE IF updated_at = -1 THEN pushed_at
       ELSE IF pushed_at >= updated_at THEN pushed_at ELSE updated_at

----------------------------------------------------------------------------
\* build_section

Days30 == 30
Days90 == 90
TopN == 5

Max0(x) == IF x > 0 THEN x ELSE 0

HasLanguage(repo) == repo.language # "None" /\ repo.language # ""

\* language_counts: its keys in insertion order, and its values
RECURSIVE LanguageKeys(_, _)
LanguageKeys(rs, keys) ==
    IF rs = <<>> THEN keys
    ELSE LET l == Head(rs).language
         IN LanguageKeys(Tail(rs),
              IF HasLanguage(Head(rs)) /\ \A i \in 1..Len(keys) : keys[i] # l
              THEN Append(keys, l) ELSE keys)

LanguageCount(rs, l) == Cardinality({i \in 1..Len(rs) : rs[i].language = l})

\* sorted(language_counts.items(), key=count, reverse=True)[:5]: by count,
\* largest first, equal counts in insertion order
top_languages(rs) ==
    LET keys == LanguageKeys(rs, <<>>)
        rank(i) == Cardinality({j \in 1..Len(keys) :
                      \/ LanguageCount(rs, keys[j]) > LanguageCount(rs, keys[i])
                      \/ /\ LanguageCount(rs, keys[j]) = LanguageCount(rs, keys[i])
                         /\ j < i})
        m == IF Len(keys) < TopN THEN Len(keys) ELSE TopN
    IN [k \in 1..m |->
          LET i == CHOOSE i \in 1..Len(keys) : rank(i) = k - 1
          IN [lang |-> keys[i], count |-> LanguageCount(rs, keys[i])]]

RECURSIVE SumCounts(_)
SumCounts(top) == IF top = <<>> THEN 0 ELSE Head(top).count + SumCounts(Tail(top))

RECURSIVE SumStars(_)
SumStars(rs) == IF rs = <<>> THEN 0 ELSE Head(rs).stars + SumStars(Tail(rs))

\* forked += 1 in the archived branch as well
ForkedCountingArchivedToo(rs) ==
    Cardinality({i \in 1..Len(rs) : rs[i].fork})
    + Cardinality({i \in 1..Len(rs) : rs[i].archived})

Forked(rs) == Cardinality({i \in 1..Len(rs) : rs[i].fork})

Archived(rs) == Cardinality({i \in 1..Len(rs) : rs[i].archived})

\* the figures computed by lines 223-272; now is what datetime.now() returns
\* at line 230
Aggregate(usr, rs, c30, c90, now) ==
    LET thirty_days_ago == now - Days30
        ninety_days_ago == now - Days90
        forked == Forked(rs)
        archived == Archived(rs)
        touched_30 == Cardinality({i \in 1..Len(rs) :
                          /\ latest_activity_at(rs[i]) # -1
                          /\ latest_activity_at(rs[i]) >= thirty_days_ago})
        touched_90 == Cardinality({i \in 1..Len(rs) :
                          /\ latest_activity_at(rs[i]) # -1
                          /\ latest_activity_at(rs[i]) >= ninety_days_ago})
        total_source == Len(rs)
    IN [public |-> Cardinality({i \in 1..Len(rs) : ~rs[i].private}),
        private |-> Cardinality({i \in 1..Len(rs) : rs[i].private}),
        total_stars |-> SumStars(SelectSeq(rs, LAMBDA repo : ~repo.private)),
        followers |-> usr.followers,
        total |-> total_source,
        forked |-> forked,
        archived |-> archived,
        original |-> Max0(total_source - forked),
        active |-> Max0(total_source - archived),
        top |-> top_languages(rs),
        touched_30 |-> IF c30 # -1 THEN c30 ELSE touched_30,
        touched_90 |-> IF c90 # -1 THEN c90 ELSE touched_90]

RECURSIVE LanguageMix(_, _)
LanguageMix(top, lang_total) ==
    IF top = <<>> THEN <<>>
    ELSE <<Head(top).lang, " ", "(">> \o pct(Head(top).count, lang_total) \o <<")">>
         \o (IF Len(top) > 1 THEN <<",", " ">> ELSE <<>>)
         \o LanguageMix(Tail(top), lang_total)

\* generated_at.strftime("%Y-%m-%d")
DateStr(day) == <<"2024-day-", ToString(day)>>

\* the text returned by lines 286-300, from the figures
Render(name, display_name, a, gen_at, token_present) ==
    LET lang_total == SumCounts(a.top)
        language_mix == IF lang_total > 0 THEN LanguageMix(a.top, lang_total)
                        ELSE <<"No dominant language signal yet">>
        source_label == IF token_present THEN "visible to your configured token"
                        ELSE "publicly visible repositories only"
    IN SECTION_START \o <<"\n", "## Work Highlights (Anonymized)", "\n", "\n">>
       \o <<"Updated: ">> \o DateStr(gen_at) \o <<" ", "UTC", "\n", "\n">>
       \o <<"- Scope: ", source_label, " ", display_name, " ", name, "\n">>
       \o <<"- 30 days: ">> \o n(a.touched_30) \o <<"\n">>
       \o <<"- 90 days: ">> \o n(a.touched_90) \o <<"\n">>
       \o <<"- Original vs forked: ">> \o n(a.original) \o <<"/">> \o n(a.forked) \o <<"\n">>
       \o <<"- Active vs archived: ">> \o n(a.active) \o <<"/">> \o n(a.archived) \o <<"\n">>
       \o <<"- Language mix: ">> \o language_mix \o <<"\n">>
       \o <<"- Repo footprint: ">> \o n(a.public) \o <<"/">> \o n(a.private) \o <<"\n">>
       \o <<"- Stars/followers: ">> \o n(a.total_stars) \o <<"/">> \o n(a.followers)
       \o <<"\n", "\n", "_auto-generated_", "\n">>
       \o SECTION_END \o <<"\n">>

build_section(name, display_name, usr, rs, gen_at, token_present, c30, c90, now) ==
    Render(name, display_name, Aggregate(usr, rs, c30, c90, now), gen_at, token_present)

----------------------------------------------------------------------------
\* Inputs of the upsert

Pieces == {SECTION_START, SECTION_END, <<"a">>, <<" ">>, <<"\n">>}

RECURSIVE Docs(_)
Docs(k) == IF k = 0 THEN {<<>>}
           ELSE Docs(k - 1) \cup {d \o p : d \in Docs(k - 1), p \in Pieces}

Absent == [exists |-> FALSE, text |-> <<>>]
Files == {Absent} \cup {[exists |-> TRUE, text |-> d] : d \in Docs(MaxPieces)}

\* generated sections: the start sentinel, a body free of sentinels, the end
\* sentinel and a newline
Bodies == {<<"\n", "x", "\n">>, <<"\n", "y", "\n">>}
Sections == {SECTION_START \o b \o SECTION_END \o <<"\n">> : b \in Bodies}

NoSection == <<>>
NoUser == [followers |-> 0, name |-> "None"]
NoStats == Aggregate(NoUser, <<>>, -1, -1, 0)

\* the day on which a repository last pushed on 2024-03-10 is exactly 30 days old
Today == iso_to_datetime("2024-03-10T12:00:00Z") + Days30

UpsertIdle ==
    /\ before = readme
    /\ section = NoSection
    /\ prevSection = NoSection
    /\ changed = FALSE
    /\ runs = 0

MainIdle ==
    /\ user = NoUser
    /\ page = 1
    /\ accum = <<>>
    /\ requests = <<>>
    /\ contributed_30 = -1
    /\ contributed_90 = -1
    /\ generated_at = -1
    /\ clock = Today
    /\ stats = NoStats
    /\ stderr = <<>>
    /\ stdout = <<>>
    /\ exit_code = -1
    /\ readme0 = readme
    /\ calls = 0
    /\ firstSection = NoSection

----------------------------------------------------------------------------
\* The upsert on its own, run again and again on one file

InitUpsert ==
    /\ readme \in Files
    /\ UpsertIdle
    /\ MainIdle
    /\ pc = "upsert_only"
    /\ username = "u"
    /\ token = FALSE
    /\ repos = <<>>

UpsertRun ==
    /\ pc = "upsert_only"
    /\ runs < MaxRuns
    /\ \E sec \in Sections :
        LET r == upsert_readme_section(readme, sec)
        IN /\ readme' = r.file
           /\ changed' = r.ret
           /\ before' = readme
           /\ section' = sec
           /\ prevSection' = section
           /\ runs' = runs + 1
    /\ UNCHANGED mainVars

NextUpsert == UpsertRun

SpecUpsert == InitUpsert /\ [][NextUpsert]_vars

----------------------------------------------------------------------------
\* main

\* what the server may answer
UserPayloads == {[followers |-> 3, name |-> "None"], [followers |-> 3, name |-> "U"]}
UserResponses ==
    {Response("ok", <<u>>, 0) : u \in UserPayloads} \cup Failures \cup {BadShape}

RepoA == Item("u/x", 1, "u", "2024-04-01T12:00:00Z")
RepoA2 == Item("u/x", 1, "u", "None")
RepoB == Item("org/y", 2, "org", "2024-03-10T12:00:00Z")
RepoC == Item("None", 7, "None", "2024-01-10T12:00:00Z")
RepoC2 == Item("", 7, "org", "None")

FullPages == {<<RepoA, RepoB>>, <<RepoB, RepoA2>>, <<RepoC, NotADict, RepoC2>>,
              <<NotADict>>}
EmptyPage == Response("ok", <<>>, 0)

\* the server's pages end: request MaxPages is answered by an empty page, if at all
PageResponses(k) ==
    {EmptyPage, BadShape} \cup Failures
    \cup (IF k < MaxPages THEN {Response("ok", d, 0) : d \in FullPages} ELSE {})

Entry(name, total) == [name |-> name, total |-> total]
ContribResponses ==
    {Response("ok", e, 0) : e \in {<<>>,
                                   <<Entry("u/x", 2), Entry("u/x", 1), Entry("org/y", 0),
                                     Entry("", 4), Entry("org/z", 1)>>}}
    \cup {Response("errors", <<>>, 0)} \cup Failures

Log(url, k, resp) == [url |-> url, page |-> k, resp |-> resp]

\* an exception nothing catches ends the process with a traceback
Crash ==
    /\ pc' = "failed"
    /\ exit_code' = 1
    /\ stderr' = Append(stderr, "Traceback: RuntimeError")

InitMain ==
    /\ readme \in {Absent,
                   [exists |-> TRUE, text |-> <<>>],
                   [exists |-> TRUE,
                    text |-> <<"a", "\n", "\n">> \o SECTION_START \o <<"old">>
                             \o SECTION_END \o <<"\n", "b", "\n">>]}
    /\ UpsertIdle
    /\ MainIdle
    /\ pc = "start"
    /\ username \in {"", "u"}
    /\ token \in BOOLEAN
    /\ repos = <<>>

\* lines 337-342
MainStart ==
    /\ pc = "start"
    /\ IF username = ""
       THEN /\ stderr' = Append(stderr, "GITHUB_USERNAME is required")
            /\ exit_code' = 2
            /\ pc' = "done"
       ELSE /\ pc' = "fetch_user"
            /\ UNCHANGED <<stderr, exit_code>>
    /\ UNCHANGED <<upsertVars, username, token, user, page, accum, repos, requests,
                   contributed_30, contributed_90, generated_at, clock, stats,
                   stdout, readme0, calls, firstSection>>

\* line 343
FetchUser ==
    /\ pc = "fetch_user"
    /\ \E resp \in UserResponses :
        /\ requests' = Append(requests, Log("user", 0, resp))
        /\ IF FetchUserRaises(resp)
           THEN Crash /\ UNCHANGED user
           ELSE /\ user' = resp.items[1]
                /\ pc' = "fetch_repos"
                /\ UNCHANGED <<stderr, exit_code>>
    /\ UNCHANGED <<upsertVars, username, token, page, accum, repos,
                   contributed_30, contributed_90, generated_at, clock, stats,
                   stdout, readme0, calls, firstSection>>

\* one turn of the loop of fetch_repos
FetchReposPage ==
    /\ pc = "fetch_repos"
    /\ \E resp \in PageResponses(page) :
        /\ requests' = Append(requests, Log("repos", page, resp))
        /\ LET outcome == PageOutcome(resp)
           IN CASE outcome = "raise" -> Crash /\ UNCHANGED <<page, accum>>
                [] outcome = "break" ->
                     /\ pc' = "fetch_repos_return"
                     /\ UNCHANGED <<page, accum, stderr, exit_code>>
                [] OTHER ->
                     /\ accum' = Extend(accum, resp.items)
                     /\ page' = page + 1
                     /\ UNCHANGED <<pc, stderr, exit_code>>
    /\ UNCHANGED <<upsertVars, username, token, user, repos,
                   contributed_30, contributed_90, generated_at, clock, stats,
                   stdout, readme0, calls, firstSection>>

\* lines 89-113, and lines 345-349 of main
FetchReposReturn ==
    /\ pc = "fetch_repos_return"
    /\ repos' = ReposReturn(accum, username, token)
    /\ generated_at' = clock
    /\ pc' = IF token THEN "contrib_30" ELSE "build"
    /\ UNCHANGED <<upsertVars, username, token, user, page, accum, requests,
                   contributed_30, contributed_90, clock, stats,
                   stderr, stdout, exit_code, readme0, calls, firstSection>>

Warn == stderr' = Append(stderr, "Warning: could not fetch contribution-based counts")

\* line 351
FetchContributed30 ==
    /\ pc = "contrib_30"
    /\ \E resp \in ContribResponses :
        /\ requests' = Append(requests, Log("graphql", Days30, resp))
        /\ IF ContribRaises(resp)
           THEN Warn /\ pc' = "build" /\ UNCHANGED contributed_30
           ELSE /\ contributed_30' = ContribCount(resp)
                /\ pc' = "contrib_90"
                /\ UNCHANGED stderr
    /\ UNCHANGED <<upsertVars, username, token, user, page, accum, repos,
                   contributed_90, generated_at, clock, stats,
                   stdout, exit_code, readme0, calls, firstSection>>

\* line 352
FetchContributed90 ==
    /\ pc = "contrib_90"
    /\ \E resp \in ContribResponses :
        /\ requests' = Append(requests, Log("graphql", Days90, resp))
        /\ IF ContribRaises(resp)
           THEN Warn /\ UNCHANGED contributed_90
           ELSE contributed_90' = ContribCount(resp) /\ UNCHANGED stderr
    /\ pc' = "build"
    /\ UNCHANGED <<upsertVars, username, token, user, page, accum, repos,
                   contributed_30, generated_at, clock, stats,
                   stdout, exit_code, readme0, calls, firstSection>>

DisplayName == IF user.name # "None" /\ user.name # "" THEN user.name ELSE username

\* a call of build_section with main's variables, at the wall clock's time
CallBuildSection ==
    /\ stats' = Aggregate(user, repos, contributed_30, contributed_90, clock)
    /\ section' = build_section(username, DisplayName, user, repos, generated_at,
                                token, contributed_30, contributed_90, clock)
    /\ calls' = calls + 1
    /\ firstSection' = IF calls = 0 THEN section' ELSE firstSection

\* lines 359-368
Build ==
    /\ pc = "build"
    /\ CallBuildSection
    /\ pc' = "upsert"
    /\ UNCHANGED <<readme, before, prevSection, changed, runs,
                   username, token, user, page, accum, repos, requests,
                   contributed_30, contributed_90, generated_at, clock,
                   stderr, stdout, exit_code, readme0>>

\* lines 369-374
Upsert ==
    /\ pc = "upsert"
    /\ LET r == upsert_readme_section(readme, section)
       IN /\ readme' = r.file
          /\ changed' = r.ret
          /\ before' = readme
          /\ runs' = runs + 1
          /\ stdout' = Append(stdout, IF r.ret THEN "Updated README.md"
                                      ELSE "No changes to README.md")
    /\ exit_code' = 0
    /\ pc' = "done"
    /\ UNCHANGED <<section, prevSection, username, token, user, page, accum, repos,
                   requests, contributed_30, contributed_90, generated_at, clock,
                   stats, stderr, readme0, calls, firstSection>>

NextMain ==
    \/ MainStart
    \/ FetchUser
    \/ FetchReposPage
    \/ FetchReposReturn
    \/ FetchContributed30
    \/ FetchContributed90
    \/ Build
    \/ Upsert

SpecMain == InitMain /\ [][NextMain]_vars

\* the interpreter runs the next statement whenever there is one
FairSpecMain == SpecMain /\ WF_vars(NextMain)

----------------------------------------------------------------------------
\* build_section on its own, called again as the wall clock advances

Stamps == {"None", "2024-01-10T12:00:00Z", "2024-03-10T12:00:00Z"}
BuildItems ==
    {[Item("u/x", 1, "u", ts) EXCEPT !.fork = f, !.archived = a] :
        ts \in Stamps, f \in BOOLEAN, a \in BOOLEAN}
    \cup {[Item("u/p", 2, "u", "not a date") EXCEPT
              !.private = TRUE, !.stars = 4, !.language = "Go",
              !.updated_at = "2024-03-09T12:00:00Z"],
          [Item("u/q", 3, "u", "2024-01-09T12:00:00Z") EXCEPT
              !.stars = 1200, !.language = "Python",
              !.updated_at = "2024-03-10T12:00:00Z"],
          [Item("u/r", 4, "u", "") EXCEPT !.stars = 2, !.language = "Go"]}

RECURSIVE Lists(_, _)
Lists(S, k) == IF k = 0 THEN {<<>>}
               ELSE Lists(S, k - 1) \cup {Append(l, x) : l \in Lists(S, k - 1), x \in S}

InitBuild ==
    /\ readme = Absent
    /\ UpsertIdle
    /\ MainIdle
    /\ pc = "build_only"
    /\ username = "u"
    /\ token \in BOOLEAN
    /\ repos \in Lists(BuildItems, MaxRepos)

\* a caller hands build_section the time it read when it started
BuildCall ==
    /\ pc = "build_only"
    /\ calls < MaxCalls
    /\ generated_at' = IF calls = 0 THEN clock ELSE generated_at
    /\ stats' = Aggregate(user, repos, contributed_30, contributed_90, clock)
    /\ section' = build_section(username, DisplayName, user, repos, generated_at',
                                token, contributed_30, contributed_90, clock)
    /\ calls' = calls + 1
    /\ firstSection' = IF calls = 0 THEN section' ELSE firstSection
    /\ UNCHANGED <<readme, before, prevSection, changed, runs,
                   pc, username, token, user, page, accum, repos, requests,
                   contributed_30, contributed_90, clock,
                   stderr, stdout, exit_code, readme0>>

Tick ==
    /\ pc = "build_only"
    /\ clock < Today + MaxTicks
    /\ clock' = clock + 1
    /\ UNCHANGED <<upsertVars, pc, username, token, user, page, accum, repos,
                   requests, contributed_30, contributed_90, generated_at, stats,
                   stderr, stdout, exit_code, readme0, calls, firstSection>>

NextBuild == BuildCall \/ Tick

SpecBuild == InitBuild /\ [][NextBuild]_vars

----------------------------------------------------------------------------
\* Properties of the upsert

RECURSIVE Occurrences(_, _)
Occurrences(hay, needle) ==
    IF Len(hay) < Len(needle) THEN 0
    ELSE (IF SubSeq(hay, 1, Len(needle)) = needle THEN 1 ELSE 0)
         + Occurrences(Tail(hay), needle)

IsPrefixOf(p, s) == Len(p) <= Len(s) /\ SubSeq(s, 1, Len(p)) = p
IsSuffixOf(p, s) == Len(p) <= Len(s) /\ SubSeq(s, Len(s) - Len(p) + 1, Len(s)) = p

RECURSIVE TrimRight(_)
TrimRight(s) ==
    IF s = <<>> \/ s[Len(s)] \notin {" ", "\n"} THEN s
    ELSE TrimRight(SubSeq(s, 1, Len(s) - 1))

RECURSIVE DropLeadingNewlines(_)
DropLeadingNewlines(s) ==
    IF s = <<>> \/ s[1] # "\n" THEN s ELSE DropLeadingNewlines(Tail(s))

\* the document the latest upsert read, and its parts around the sentinels
DocBefore == IF before.exists THEN before.text ELSE DefaultReadme
StartAt == Find(DocBefore, SECTION_START)
EndAt == Find(DocBefore, SECTION_END)
SentinelsInOrder == StartAt # -1 /\ EndAt # -1 /\ EndAt > StartAt
TextBeforeStart == SubSeq(DocBefore, 1, StartAt)
TextAfterEnd == SubSeq(DocBefore, EndAt + Len(SECTION_END) + 1, Len(DocBefore))

\* C1: running the upsert again with the same section leaves the file as the
\* previous run left it and returns False.
C1_Idempotent ==
    (runs >= 2 /\ section = prevSection) => (readme = before /\ changed = FALSE)

\* C2: after any number of upsert runs the document holds exactly one start
\* sentinel and exactly one end sentinel, the start before the end.
C2_OneSentinelPair ==
    runs >= 1 =>
        /\ Occurrences(readme.text, SECTION_START) = 1
        /\ Occurrences(readme.text, SECTION_END) = 1
        /\ Find(readme.text, SECTION_START) < Find(readme.text, SECTION_END)

\* C3 as stated: when the document read holds the start sentinel and later the
\* end sentinel, the text before the start sentinel and the text after the end
\* sentinel appear in the new document verbatim, as its beginning and its end.
C3_VerbatimAround ==
    (runs >= 1 /\ SentinelsInOrder) =>
        /\ IsPrefixOf(TextBeforeStart, readme.text)
        /\ IsSuffixOf(TextAfterEnd, readme.text)

\* C3 as amended: the new document is the text before the start sentinel less
\* its trailing whitespace, one blank line, the section, and then, when the text
\* after the end sentinel less its leading newlines is not empty, a newline and
\* that text; nothing else of the document changes.
C3_PreservedUpToBoundaryWhitespace ==
    (runs >= 1 /\ SentinelsInOrder) =>
        LET rest == DropLeadingNewlines(TextAfterEnd)
        IN readme.text = TrimRight(TextBeforeStart) \o <<"\n", "\n">> \o section
                         \o (IF rest # <<>> THEN <<"\n">> \o rest ELSE <<>>)

\* C3 witness: an upsert replaced a section that had text with trailing
\* whitespace before it and text behind newlines after it.
C3_Witness ==
    /\ runs >= 1
    /\ SentinelsInOrder
    /\ TextBeforeStart # <<>>
    /\ TrimRight(TextBeforeStart) # TextBeforeStart
    /\ TrimRight(TextBeforeStart) # <<>>
    /\ DropLeadingNewlines(TextAfterEnd) # <<>>
    /\ DropLeadingNewlines(TextAfterEnd) # TextAfterEnd
    /\ changed

----------------------------------------------------------------------------
\* Properties of main and fetch_repos

IsTransportOrHttpFailure(resp) == resp.kind \in {"http_error", "network_error"}

RepoLog == SelectSeq(requests, LAMBDA q : q.url = "repos")

\* fetch_repos has left its loop by an empty page
LoopEnded ==
    \/ pc \in {"fetch_repos_return", "contrib_30", "contrib_90", "build", "upsert"}
    \/ pc = "done" /\ exit_code = 0

\* fetch_repos has returned to main
Returned ==
    \/ pc \in {"contrib_30", "contrib_90", "build", "upsert"}
    \/ pc = "done" /\ exit_code = 0

RECURSIVE ConcatPages(_, _)
ConcatPages(log, k) ==
    IF k = 0 THEN <<>> ELSE ConcatPages(log, k - 1) \o log[k].resp.items

RECURSIVE ConcatObjects(_, _)
ConcatObjects(log, k) ==
    IF k = 0 THEN <<>>
    ELSE ConcatObjects(log, k - 1) \o SelectSeq(log[k].resp.items, LAMBDA it : it.dict)

\* C4: once the user request or a repository page request has failed (transport
\* failure or non-2xx), that request is the last one issued, the run has ended
\* with an error, nothing was aggregated or built and README.md is as it was.
C4_FetchFailureIsFatal ==
    \A i \in 1..Len(requests) :
        (requests[i].url \in {"user", "repos"}
            /\ IsTransportOrHttpFailure(requests[i].resp)) =>
                /\ i = Len(requests)
                /\ pc = "failed"
                /\ exit_code = 1
                /\ repos = <<>>
                /\ calls = 0
                /\ section = NoSection
                /\ runs = 0
                /\ readme = readme0

\* C4 witness: the third page request failed after two pages had been accumulated.
C4_Witness ==
    /\ pc = "failed"
    /\ Len(RepoLog) = 3
    /\ IsTransportOrHttpFailure(RepoLog[3].resp)
    /\ accum # <<>>
    /\ readme0.exists

ContribFailed ==
    \E i \in 1..Len(requests) :
        requests[i].url = "graphql" /\ requests[i].resp.kind # "ok"

ActivityCount(days) ==
    Cardinality({i \in 1..Len(repos) :
        /\ latest_activity_at(repos[i]) # -1
        /\ latest_activity_at(repos[i]) >= clock - days})

\* C5: with a token, when a contribution query (30-day or 90-day) failed, the run
\* warns, renders, exits 0, and both reported figures are the activity-based
\* counts of the repository list.
C5_FallbackIsActivityBased ==
    (pc = "done" /\ token /\ ContribFailed) =>
        /\ exit_code = 0
        /\ \E i \in 1..Len(stderr) :
              stderr[i] = "Warning: could not fetch contribution-based counts"
        /\ runs = 1
        /\ stats.touched_30 = ActivityCount(Days30)
        /\ stats.touched_90 = ActivityCount(Days90)

\* pages are requested 1, 2, 3, ... and the loop goes on only past pages that
\* are not empty, and ends at the first empty one
PagesInOrder ==
    /\ \A i \in 1..Len(RepoLog) : RepoLog[i].page = i
    /\ pc = "fetch_repos" =>
          /\ page = Len(RepoLog) + 1
          /\ \A i \in 1..Len(RepoLog) : RepoLog[i].resp.items # <<>>
    /\ LoopEnded =>
          /\ Len(RepoLog) >= 1
          /\ RepoLog[Len(RepoLog)].resp = EmptyPage
          /\ \A i \in 1..(Len(RepoLog) - 1) : RepoLog[i].resp.items # <<>>

\* C6 as stated: pages are requested in order, the loop stops at the first page
\* with zero records, and the accumulator then holds exactly the records of all
\* earlier pages, in page order and within-page order.
C6_AccumulatorIsEarlierPages ==
    /\ PagesInOrder
    /\ LoopEnded => accum = ConcatPages(RepoLog, Len(RepoLog) - 1)

\* C6 as amended: pages are requested in order, the loop stops at the first page
\* that is an empty list, and the accumulator then holds exactly the elements of
\* all earlier pages that are JSON objects, in page order and within-page order;
\* elements that are not objects are skipped.  With a server whose pages end,
\* the loop is always left.
C6_AccumulatorIsEarlierObjects ==
    /\ [](PagesInOrder /\ (LoopEnded => accum = ConcatObjects(RepoLog, Len(RepoLog) - 1)))
    /\ [](pc = "fetch_repos" => <>(pc # "fetch_repos"))

\* C6 witness: the loop ended at the third request, after two pages one of which
\* held an element that is no object.
C6_Witness ==
    /\ LoopEnded
    /\ Len(RepoLog) = 3
    /\ accum # <<>>
    /\ Len(accum) < Len(ConcatPages(RepoLog, 2))

\* the claim's key: the full name when it is a non-empty string, otherwise the id
SameIdentity(a, b) ==
    LET named(r) == r.full_name # "None" /\ r.full_name # ""
    IN IF named(a) /\ named(b) THEN a.full_name = b.full_name
       ELSE IF ~named(a) /\ ~named(b) THEN a.id = b.id
       ELSE FALSE

FirstOfItsIdentity(s, i) == \A j \in 1..(i - 1) : ~SameIdentity(s[j], s[i])

RECURSIVE KeepFirsts(_, _)
KeepFirsts(s, k) ==
    IF k = 0 THEN <<>>
    ELSE IF FirstOfItsIdentity(s, k) THEN Append(KeepFirsts(s, k - 1), s[k])
    ELSE KeepFirsts(s, k - 1)

\* C7: with a token, what fetch_repos returns is the accumulated list cut down
\* to the first record of every key, in the accumulated order: no two records
\* share a key and every key of the accumulated list is still there.
C7_DedupeKeepsFirstSeen ==
    (Returned /\ token) =>
        /\ repos = KeepFirsts(accum, Len(accum))
        /\ \A i, j \in 1..Len(repos) : i # j => ~SameIdentity(repos[i], repos[j])
        /\ \A i \in 1..Len(accum) : \E j \in 1..Len(repos) : SameIdentity(accum[i], repos[j])

\* C7 witness: of two records of one key on different pages the first was kept,
\* and the second, which differs from it, was dropped.
C7_Witness ==
    /\ Returned
    /\ token
    /\ Len(repos) >= 2
    /\ Len(repos) < Len(accum)
    /\ \E i, j \in 1..Len(accum) :
          i < j /\ SameIdentity(accum[i], accum[j]) /\ accum[i] # accum[j]

\* C8: without a token, what fetch_repos returns is the accumulated records
\* whose owner login is the username, in order, when there is one, and the whole
\* accumulated list when there is none.
C8_OwnerFilterWithFallback ==
    (Returned /\ ~token) =>
        LET mine == SelectSeq(accum, LAMBDA r : r.owner = username)
        IN /\ repos = (IF mine # <<>> THEN mine ELSE accum)
           /\ (repos = <<>> => accum = <<>>)

\* C8 witness: some accumulated records were the user's and some were not.
C8_Witness ==
    /\ Returned
    /\ ~token
    /\ Len(repos) >= 1
    /\ Len(repos) < Len(accum)

----------------------------------------------------------------------------
\* Properties of build_section

\* C9: two calls of build_section with the same inputs and the same supplied
\* time return the same section, whatever the wall clock shows at each call.
C9_SameInputsSameSection ==
    calls >= 2 => section = firstSection

\* C10: original + forked = total and active + archived = total, and none of
\* the four figures is negative.
C10_SplitsAddUp ==
    calls >= 1 =>
        /\ stats.total = Len(repos)
        /\ stats.original + stats.forked = stats.total
        /\ stats.active + stats.archived = stats.total
        /\ stats.original >= 0 /\ stats.forked >= 0
        /\ stats.active >= 0 /\ stats.archived >= 0

\* C10 witness: build_section ran on a list with a fork that is archived and a
\* repository that is neither.
C10_Witness ==
    /\ calls >= 1
    /\ Len(repos) = 2
    /\ stats.forked = 1
    /\ stats.archived = 1
    /\ \E i \in 1..2 : repos[i].fork /\ repos[i].archived

====
